---- MODULE Spec2Model ----
(***************************************************************************)
(* A model of cliproc.CliCommand (src/cliproc.py): one CliCommand handle,  *)
(* the sarge Capture / Pipeline objects it creates, and the calls a        *)
(* client makes on it (run, terminate, get_process, get_output).           *)
(*                                                                         *)
(* Python's None is the empty tuple and a present value v is <<v>>, so an  *)
(* optional string, an optional boolean and an object reference are all    *)
(* comparable values.  Objects live in `heap`; a reference is <<i>> with i *)
(* an index of heap.                                                       *)
(***************************************************************************)
EXTENDS Integers, Sequences, FiniteSets

VARIABLES
    cmd,                  \* self.cmd
    posix,                \* self.posix
    kwargs,               \* self.kwargs (the dict object the caller passed)
    stdout,               \* self.stdout : None or a reference to a Capture
    stderr,               \* self.stderr : None or a reference to a Capture
    process,              \* self.process: None or a reference to a Pipeline
    stdout_encoding,      \* self.stdout_encoding
    stderr_encoding,      \* self.stderr_encoding
    silence,              \* self._silence
    capture,              \* self._capture
    sys_stdout_encoding,  \* sys.stdout.encoding
    sys_stderr_encoding,  \* sys.stderr.encoding
    platform_system,      \* platform.system()
    heap,                 \* the Capture and Pipeline objects created so far
    nruns,                \* number of run() calls made so far
    nfaults,              \* number of calls in which a collaborator raised
    given,                \* the keyword options as passed to the constructor
    lifecycle,            \* summary of the most recent __init__/run/terminate
    last                  \* what the most recent call did (see Call)

vars == <<cmd, posix, kwargs, stdout, stderr, process, stdout_encoding,
          stderr_encoding, silence, capture, sys_stdout_encoding,
          sys_stderr_encoding, platform_system, heap, nruns, nfaults, given,
          lifecycle, last>>

\* The fields of the handle that hold its configuration.
config == <<cmd, posix, kwargs, stdout_encoding, stderr_encoding, silence,
            capture>>

environment == <<sys_stdout_encoding, sys_stderr_encoding, platform_system>>

----------------------------------------------------------------------------
(* Bounds and input sets *)

MaxRuns == 2

MaxFaults == 1

None == <<>>

Some(v) == <<v>>

\* Constructor arguments and environment of the handles that are run.  The
\* program path, posix and the keyword options are passed through to the
\* Pipeline independently of one another, so they vary together.
CmdSet == {"foo", "/usr/bin/ls"}

PosixSet == {None, Some(TRUE)}

PlatformSet == {"Windows", "Linux"}

Cwd == [k \in {"cwd"} |-> "/tmp"]

EncodingCwd == [k \in {"encoding", "cwd"} |->
                   IF k = "encoding" THEN "latin-1" ELSE "/tmp"]

ArgumentSet == { [cmd |-> "foo", posix |-> None, kwargs |-> Cwd],
                 [cmd |-> "/usr/bin/ls", posix |-> Some(TRUE),
                  kwargs |-> EncodingCwd] }

SysStdoutSet == {Some("cp949")}

SysStderrSet == {Some("ascii")}

\* Constructor arguments and environment of the handles that are only
\* constructed: every combination of keyword options and stream encodings.
EncodingSet == {"latin-1", "utf-16"}

SysEncodingSet == {None, Some("cp949"), Some("ascii")}

AllKwargsSet ==
    { [k \in {} |-> ""] }
    \cup { [k \in {"encoding"} |-> e] : e \in EncodingSet }
    \cup { [k \in {"cwd"} |-> "/tmp"] }
    \cup { [k \in {"encoding", "cwd"} |-> IF k = "encoding" THEN e ELSE "/tmp"]
             : e \in EncodingSet }

ParamSet == {None, Some(""), Some("-l")}

MsgSet == {None, Some("listing")}

InputSet == {None, Some("y")}

\* The text of the stdout capture, as a sequence of characters.
TextSet == { <<>>, <<"a", "\n", "b", "\n", "c">> }

\* The text of the stderr capture.
ErrTextSet == { <<"w", "\n">> }

ReturncodeSet == {0, 1}

\* What the collaborators do in one call: nothing goes wrong, the Pipeline
\* constructor raises, Pipeline.run raises, or the close() of the stdout
\* capture, the stderr capture or the process raises.
FaultSet == {"none", "ctor", "launch", "stdout", "stderr", "process"}

----------------------------------------------------------------------------
(* Strings *)

Digit(d) == CASE d = 0 -> "0" [] d = 1 -> "1" [] d = 2 -> "2" [] d = 3 -> "3"
              [] d = 4 -> "4" [] d = 5 -> "5" [] d = 6 -> "6" [] d = 7 -> "7"
              [] d = 8 -> "8" [] d = 9 -> "9"

RECURSIVE NatToStr(_)
NatToStr(n) == IF n < 10 THEN Digit(n) ELSE NatToStr(n \div 10) \o Digit(n % 10)

\* "%d" % n
FormatD(n) == IF n < 0 THEN "-" \o NatToStr(0 - n) ELSE NatToStr(n)

\* The string made of the characters of cs.
RECURSIVE Str(_)
Str(cs) == IF cs = <<>> THEN "" ELSE Head(cs) \o Str(Tail(cs))

\* Mutant: text.splitlines(), which has no piece after a final newline and
\* none at all for the empty text.
RECURSIVE Split_splitlines(_)
Split_splitlines(cs) ==
    IF cs = <<>> THEN <<>>
    ELSE IF Head(cs) = "\n" THEN << <<>> >> \o Split_splitlines(Tail(cs))
    ELSE LET rest == Split_splitlines(Tail(cs))
         IN  IF rest = <<>> THEN << <<Head(cs)>> >>
             ELSE << <<Head(cs)>> \o Head(rest) >> \o Tail(rest)

\* text.split("\n"): the pieces between newlines; never empty.
RECURSIVE Split(_)
Split(cs) ==
    IF cs = <<>> THEN << <<>> >>
    ELSE IF Head(cs) = "\n" THEN << <<>> >> \o Split(Tail(cs))
    ELSE LET rest == Split(Tail(cs))
         IN  << <<Head(cs)>> \o Head(rest) >> \o Tail(rest)

\* Python truth value of an optional string (`if param:`).
Truthy(s) == s # None /\ s[1] # ""

----------------------------------------------------------------------------
(* Objects *)

\* closed: a close() of the object has returned; ncloses: the close() calls
\* made on it; nraised: those of them that raised; stop_threads: the
\* stop_threads argument of the last of them.
NewCapture(encoding) ==
    [kind |-> "Capture", encoding |-> Some(encoding), closed |-> FALSE,
     ncloses |-> 0, nraised |-> 0, stop_threads |-> None]

NewPipeline ==
    [kind |-> "Pipeline", encoding |-> None, closed |-> FALSE, ncloses |-> 0,
     nraised |-> 0, stop_threads |-> None]

\* heap[i].close(stop_threads=stop) for a Capture, heap[i].close() for a
\* Pipeline (stop = None); the call returns (ok) or raises.
Close(h, i, stop, ok) ==
    [h EXCEPT ![i].ncloses = @ + 1, ![i].closed = @ \/ ok,
              ![i].nraised = IF ok THEN @ ELSE @ + 1,
              ![i].stop_threads = stop]

\* The record of one call on the handle.
Call(op) ==
    [op       |-> op,      \* which method
     nobjects |-> Len(heap), \* the objects that existed when it began
     param    |-> None,    \* run's param argument
     exc      |-> None,    \* the exception it raised, if any
     ret      |-> None,    \* the reference it returned
     closes   |-> <<>>,    \* the objects close() was called on, in order
     pipeline |-> None,    \* the arguments of the Pipeline it constructed
     live     |-> {},      \* the un-closed Pipelines when it constructed one
     launches |-> <<>>,    \* the arguments of each Pipeline.run it made
     exitcode |-> None,    \* the returncode it formatted
     texts    |-> <<>>,    \* the capture texts it read, in order
     console  |-> <<>>,    \* the lines it printed
     pending  |-> ""]      \* what it printed after the last newline

Raise(st, e) == [st EXCEPT !.call.exc = Some(e)]

\* The handle's fields and the heap, with the record of the call under way.
Self(op) ==
    [cmd |-> cmd, posix |-> posix, kwargs |-> kwargs, stdout |-> stdout,
     stderr |-> stderr, process |-> process,
     stdout_encoding |-> stdout_encoding, stderr_encoding |-> stderr_encoding,
     silence |-> silence, capture |-> capture, heap |-> heap,
     call |-> Call(op)]

\* st with close() called on the object ref refers to.
CloseCall(st, ref, stop, ok) ==
    [st EXCEPT !.heap = Close(@, ref[1], stop, ok),
               !.call.closes = Append(@, ref[1])]

\* What is kept of a call once a later get_process/get_output replaced it.
Summary(call) ==
    [op |-> call.op, exc |-> call.exc, ret |-> call.ret,
     stdout |-> IF call.pipeline = None THEN None ELSE call.pipeline[1].stdout,
     stderr |-> IF call.pipeline = None THEN None ELSE call.pipeline[1].stderr]

----------------------------------------------------------------------------
(* CliCommand.__init__ *)

\* kwargs.pop("encoding") on the dict kw
Pop(kw) == [k \in (DOMAIN kw) \ {"encoding"} |-> kw[k]]

\* Mutant: the explicit encoding reaches stdout only.
ResolveEncodings_stdoutOnly(kw, sysout, syserr) ==
    IF "encoding" \in DOMAIN kw
      THEN <<kw["encoding"], IF syserr # None THEN syserr[1] ELSE "utf-8">>
    ELSE IF sysout # None /\ syserr # None
      THEN <<sysout[1], syserr[1]>>
    ELSE <<"utf-8", "utf-8">>

\* Mutant: the platform encodings are used when only one of them is defined.
ResolveEncodings_eitherDefined(kw, sysout, syserr) ==
    IF "encoding" \in DOMAIN kw
      THEN <<kw["encoding"], kw["encoding"]>>
    ELSE IF sysout # None \/ syserr # None
      THEN <<IF sysout # None THEN sysout[1] ELSE syserr[1],
             IF syserr # None THEN syserr[1] ELSE sysout[1]>>
    ELSE <<"utf-8", "utf-8">>

\* The pair <<stdout_encoding, stderr_encoding>> the constructor resolves.
ResolveEncodings(kw, sysout, syserr) ==
    IF "encoding" \in DOMAIN kw
      THEN <<kw["encoding"], kw["encoding"]>>
    ELSE IF sysout # None /\ syserr # None
      THEN <<sysout[1], syserr[1]>>
    ELSE <<"utf-8", "utf-8">>

\* self.kwargs is the caller's dict itself, so the pop shows in it.
\* Mutant: self.kwargs is a copy taken before "encoding" is popped.
StoredKwargs_copy(kw) == kw

StoredKwargs(kw) == IF "encoding" \in DOMAIN kw THEN Pop(kw) ELSE kw

\* The handle CliCommand(c, posix=p, silence=s, capture=cap, **kw) is.
__init__(c, p, s, cap, kw) ==
    /\ cmd = c
    /\ posix = p
    /\ process = None
    /\ given = kw
    /\ kwargs = StoredKwargs(kw)
    /\ stdout = None
    /\ stderr = None
    /\ stdout_encoding =
           ResolveEncodings(kw, sys_stdout_encoding, sys_stderr_encoding)[1]
    /\ stderr_encoding =
           ResolveEncodings(kw, sys_stdout_encoding, sys_stderr_encoding)[2]
    /\ silence = s
    /\ capture = cap
    /\ heap = <<>>
    /\ nruns = 0
    /\ nfaults = 0
    /\ last = Call("__init__")
    /\ lifecycle = Summary(Call("__init__"))

Init ==
    /\ sys_stdout_encoding \in SysStdoutSet
    /\ sys_stderr_encoding \in SysStderrSet
    /\ platform_system \in PlatformSet
    /\ \E a \in ArgumentSet, s \in BOOLEAN, cap \in BOOLEAN :
          __init__(a.cmd, a.posix, s, cap, a.kwargs)

InitAll ==
    /\ sys_stdout_encoding \in SysEncodingSet
    /\ sys_stderr_encoding \in SysEncodingSet
    /\ platform_system \in PlatformSet
    /\ \E c \in CmdSet, p \in PosixSet, s \in BOOLEAN, cap \in BOOLEAN,
          kw \in AllKwargsSet : __init__(c, p, s, cap, kw)

----------------------------------------------------------------------------
(* CliCommand.terminate *)

\* Mutant: the stdout capture is closed and its reference kept.
ReleaseStdout_keepsReference(st, fault) ==
    IF st.stdout # None
      THEN IF fault = "stdout"
             THEN Raise(CloseCall(st, st.stdout, Some(TRUE), FALSE), "CloseError")
             ELSE CloseCall(st, st.stdout, Some(TRUE), TRUE)
      ELSE st

ReleaseStdout(st, fault) ==
    IF st.stdout # None
      THEN IF fault = "stdout"
             THEN Raise(CloseCall(st, st.stdout, Some(TRUE), FALSE), "CloseError")
             ELSE [CloseCall(st, st.stdout, Some(TRUE), TRUE)
                     EXCEPT !.stdout = None]
      ELSE st

\* Mutant: the stderr capture is dropped without being closed.
ReleaseStderr_noClose(st, fault) ==
    IF st.call.exc # None THEN st ELSE [st EXCEPT !.stderr = None]

ReleaseStderr(st, fault) ==
    IF st.call.exc # None THEN st
    ELSE IF st.stderr # None
      THEN IF fault = "stderr"
             THEN Raise(CloseCall(st, st.stderr, Some(TRUE), FALSE), "CloseError")
             ELSE [CloseCall(st, st.stderr, Some(TRUE), TRUE)
                     EXCEPT !.stderr = None]
      ELSE st

\* Mutant: the process is dropped without being closed.
ReleaseProcess_noClose(st, fault) ==
    IF st.call.exc # None THEN st ELSE [st EXCEPT !.process = None]

\* Mutant: the process is closed and the reference to it is kept.
ReleaseProcess_keepsReference(st, fault) ==
    IF st.call.exc # None THEN st
    ELSE IF st.process # None
      THEN IF fault = "process"
             THEN Raise(CloseCall(st, st.process, None, FALSE), "CloseError")
             ELSE CloseCall(st, st.process, None, TRUE)
      ELSE st

\* Mutant: releasing the process also forgets the launch options.
ReleaseProcess_clearsKwargs(st, fault) ==
    IF st.call.exc # None THEN st
    ELSE IF st.process # None
      THEN IF fault = "process"
             THEN Raise(CloseCall(st, st.process, None, FALSE), "CloseError")
             ELSE [CloseCall(st, st.process, None, TRUE)
                     EXCEPT !.process = None, !.kwargs = [k \in {} |-> ""]]
      ELSE st

ReleaseProcess(st, fault) ==
    IF st.call.exc # None THEN st
    ELSE IF st.process # None
      THEN IF fault = "process"
             THEN Raise(CloseCall(st, st.process, None, FALSE), "CloseError")
             ELSE [CloseCall(st, st.process, None, TRUE)
                     EXCEPT !.process = None]
      ELSE st

\* Mutant: the process is released before the captures.
terminate_processFirst(st, fault) ==
    ReleaseStderr(ReleaseStdout(ReleaseProcess(st, fault), fault), fault)

\* Mutant: nothing is released unless a process is stored.
terminate_onlyWhenProcess(st, fault) ==
    IF st.process = None
      THEN st
      ELSE ReleaseProcess(ReleaseStderr(ReleaseStdout(st, fault), fault), fault)

terminate(st, fault) ==
    ReleaseProcess(ReleaseStderr(ReleaseStdout(st, fault), fault), fault)

----------------------------------------------------------------------------
(* CliCommand._printResult *)

WriteLine(st, line) == [st EXCEPT !.call.console = Append(@, st.call.pending \o line),
                              !.call.pending = ""]

\* print(s, end=" ")
WriteNoNewline(st, s) == [st EXCEPT !.call.pending = @ \o s \o " "]

RECURSIVE WriteContinuation(_, _)
WriteContinuation(st, data) ==
    IF data = <<>> THEN st
    ELSE WriteContinuation(WriteLine(st, "[]           : " \o Str(Head(data))),
                           Tail(data))

\* One stream's block: the label, the first piece, the other pieces.
WriteStream(st, label, ref, text) ==
    LET a == [WriteNoNewline(st, label) EXCEPT !.call.texts = Append(@, text)]
        data == Split(text)
        b == IF Len(data) > 0 THEN WriteLine(a, Str(Head(data))) ELSE WriteLine(a, "")
        rest == IF Len(data) > 0 THEN Tail(data) ELSE data
    IN  IF ref = None THEN Raise(WriteNoNewline(st, label), "AttributeError")
        ELSE WriteContinuation(b, rest)

\* source and returncode are the Pipeline's; out and err the captures' text.
_printResult(st, source, returncode, out, err) ==
    LET a == WriteLine(WriteLine(st, "[] ** START **"), "[] Command   : " \o source)
        b == [WriteLine(a, "[] Exit Code : " \o FormatD(returncode[1]))
                EXCEPT !.call.exitcode = returncode]
        c == WriteStream(b, "[] STDOUT    :", b.stdout, out)
        d == WriteStream(c, "[] STDERR    :", c.stderr, err)
    IN  IF returncode = None THEN Raise(a, "TypeError")
        ELSE IF c.call.exc # None THEN c
        ELSE IF d.call.exc # None THEN d
        ELSE WriteLine(WriteLine(d, "[] ** E N D **"), "")

----------------------------------------------------------------------------
(* CliCommand.run *)

\* Mutant: the Windows suffix is appended on every platform.
Command_exitEverywhere(c, param) ==
    LET command == IF Truthy(param) THEN c \o " " \o param[1] ELSE c
    IN  command \o " & exit"

\* Mutant: the separator is added whenever param is not None.
Command_joinsWhenNotNone(c, param) ==
    LET command == IF param # None THEN c \o " " \o param[1] ELSE c
    IN  IF platform_system = "Windows" THEN command \o " & exit" ELSE command

\* The command line run() builds from self.cmd and param.
Command(c, param) ==
    LET command == IF Truthy(param) THEN c \o " " \o param[1] ELSE c
    IN  IF platform_system = "Windows" THEN command \o " & exit" ELSE command

Shell == IF platform_system = "Windows" THEN Some(TRUE) ELSE None

\* The fresh captures of a run.
\* Mutant: only the stdout capture is allocated.
AllocateCaptures_stdoutOnly(st) ==
    IF st.capture = TRUE
      THEN [st EXCEPT
              !.heap = Append(@, NewCapture(st.stdout_encoding)),
              !.stdout = Some(Len(st.heap) + 1)]
      ELSE st

AllocateCaptures(st) ==
    IF st.capture = TRUE
      THEN [st EXCEPT
              !.heap = @ \o <<NewCapture(st.stdout_encoding),
                              NewCapture(st.stderr_encoding)>>,
              !.stdout = Some(Len(st.heap) + 1),
              !.stderr = Some(Len(st.heap) + 2)]
      ELSE st

\* Mutant: the Pipeline is constructed and not stored in self.process.
ConstructPipeline_notStored(st, param) ==
    [st EXCEPT
       !.heap = Append(@, NewPipeline),
       !.call.pipeline = Some([source |-> Command(st.cmd, param),
                               shell |-> Shell, posix |-> st.posix,
                               stdout |-> st.stdout, stderr |-> st.stderr,
                               kwargs |-> st.kwargs]),
       !.call.live = {i \in 1..Len(st.heap) :
                        st.heap[i].kind = "Pipeline" /\ ~st.heap[i].closed}]

\* self.process = Pipeline(source=command, shell=shell, posix=self.posix,
\*                         stdout=self.stdout, stderr=self.stderr, **self.kwargs)
ConstructPipeline(st, param) ==
    [st EXCEPT
       !.heap = Append(@, NewPipeline),
       !.process = Some(Len(st.heap) + 1),
       !.call.pipeline = Some([source |-> Command(st.cmd, param),
                               shell |-> Shell, posix |-> st.posix,
                               stdout |-> st.stdout, stderr |-> st.stderr,
                               kwargs |-> st.kwargs]),
       !.call.live = {i \in 1..Len(st.heap) :
                        st.heap[i].kind = "Pipeline" /\ ~st.heap[i].closed}]

\* self.process.run(input=input, async_=async)
Launch(st, input, async_) ==
    [st EXCEPT !.call.launches = Append(@, [input |-> input, async_ |-> async_])]

\* Mutant: the stdout capture is returned in place of the process.
get_process_returnsOutput(st) == [st EXCEPT !.call.ret = st.stdout]

get_process(st) == [st EXCEPT !.call.ret = st.process]

\* Mutant: a Pipeline.run that raised is tried once more.
run_retriesLaunch(param, msg, input, async_, fault, returncode, out, err) ==
    LET s0 == [Self("run") EXCEPT !.call.param = param]
        s1 == terminate(s0, fault)
        s2 == AllocateCaptures(s1)
        s3 == ConstructPipeline(s2, param)
        s4 == IF fault = "launch"
                THEN Launch(Launch(s3, input, async_), input, async_)
                ELSE Launch(s3, input, async_)
        s5 == IF ~s4.silence
                THEN _printResult(s4, Command(s4.cmd, param), returncode, out,
                                  err)
                ELSE s4
    IN  IF s1.call.exc # None THEN s1
        ELSE IF fault = "ctor" THEN Raise(s2, "LaunchError")
        ELSE IF s5.call.exc # None THEN s5
        ELSE get_process(s5)

\* Mutant: the message is printed ahead of the report.
run_printsMsg(param, msg, input, async_, fault, returncode, out, err) ==
    LET s0 == [Self("run") EXCEPT !.call.param = param]
        s1 == terminate(s0, fault)
        s2 == AllocateCaptures(s1)
        s3 == ConstructPipeline(s2, param)
        s4 == Launch(s3, input, async_)
        s5 == IF ~s4.silence
                THEN _printResult(IF msg # None
                                    THEN WriteLine(s4, "[] " \o msg[1])
                                    ELSE s4,
                                  Command(s4.cmd, param), returncode, out, err)
                ELSE s4
    IN  IF s1.call.exc # None THEN s1
        ELSE IF fault = "ctor" THEN Raise(s2, "LaunchError")
        ELSE IF fault = "launch" THEN Raise(s4, "LaunchError")
        ELSE IF s5.call.exc # None THEN s5
        ELSE get_process(s5)

run(param, msg, input, async_, fault, returncode, out, err) ==
    LET s0 == [Self("run") EXCEPT !.call.param = param]
        s1 == terminate(s0, fault)
        s2 == AllocateCaptures(s1)
        s3 == ConstructPipeline(s2, param)
        s4 == Launch(s3, input, async_)
        s5 == IF ~s4.silence
                THEN _printResult(s4, Command(s4.cmd, param), returncode, out,
                                  err)
                ELSE s4
    IN  IF s1.call.exc # None THEN s1
        ELSE IF fault = "ctor" THEN Raise(s2, "LaunchError")
        ELSE IF fault = "launch" THEN Raise(s4, "LaunchError")
        ELSE IF s5.call.exc # None THEN s5
        ELSE get_process(s5)

\* Mutant: the stderr capture is returned.
get_output_returnsStderr(st) == [st EXCEPT !.call.ret = st.stderr]

get_output(st) == [st EXCEPT !.call.ret = st.stdout]

----
(* Actions: the calls a client makes *)

\* The faults the collaborators may still produce.
Faults(S) == IF nfaults < MaxFaults THEN S ELSE {"none"}

\* Whether the fault chosen for a call made a collaborator raise in it.
Struck(st) == st.call.exc \in {Some("CloseError"), Some("LaunchError")}

\* The state a call leaves: the handle's fields, the heap and the call.
Becomes(st) ==
    /\ cmd' = st.cmd
    /\ posix' = st.posix
    /\ kwargs' = st.kwargs
    /\ stdout' = st.stdout
    /\ stderr' = st.stderr
    /\ process' = st.process
    /\ stdout_encoding' = st.stdout_encoding
    /\ stderr_encoding' = st.stderr_encoding
    /\ silence' = st.silence
    /\ capture' = st.capture
    /\ heap' = st.heap
    /\ last' = st.call
    /\ lifecycle' = IF st.call.op \in {"run", "terminate"}
                      THEN Summary(st.call) ELSE lifecycle
    /\ nfaults' = IF Struck(st) THEN nfaults + 1 ELSE nfaults
    /\ UNCHANGED <<environment, given>>

\* Whether a run() with this fault reaches the report.
Reports(fault) == ~silence /\ fault = "none"

\* Pipeline.returncode after run(): set when the call waited for the child,
\* possibly still None when it did not.  Only the report reads it.
Returncodes(async_, fault) ==
    IF Reports(fault)
      THEN {Some(r) : r \in ReturncodeSet} \cup (IF async_ THEN {None} ELSE {})
      ELSE {Some(0)}

\* The text of a capture.  Only the report reads it.
Texts(S, fault) == IF Reports(fault) /\ capture THEN S ELSE {<<>>}

Run ==
    /\ nruns < MaxRuns
    /\ \E param \in ParamSet, msg \in MsgSet, input \in InputSet,
          async_ \in BOOLEAN, fault \in Faults(FaultSet) :
         \E returncode \in Returncodes(async_, fault),
            out \in Texts(TextSet, fault), err \in Texts(ErrTextSet, fault) :
            Becomes(run(param, msg, input, async_, fault, returncode, out, err))
    /\ nruns' = nruns + 1

Terminate ==
    /\ \E fault \in Faults(FaultSet \ {"ctor", "launch"}) :
         Becomes(terminate(Self("terminate"), fault))
    /\ nruns' = nruns

GetProcess ==
    /\ Becomes(get_process(Self("get_process")))
    /\ nruns' = nruns

GetOutput ==
    /\ Becomes(get_output(Self("get_output")))
    /\ nruns' = nruns

Next == Run \/ Terminate \/ GetProcess \/ GetOutput

Spec == Init /\ [][Next]_vars

\* Handles that are constructed and never run.
NextNew == Terminate \/ GetProcess \/ GetOutput

SpecNew == InitAll /\ [][NextNew]_vars

----------------------------------------------------------------------------
(* Vocabulary of the properties *)

Objects == 1..Len(heap)

\* The objects the handle refers to.
Referenced ==
    {i \in Objects : stdout = Some(i) \/ stderr = Some(i) \/ process = Some(i)}

\* The process handles close() has not returned on.
LiveProcesses ==
    {i \in Objects : heap[i].kind = "Pipeline" /\ ~heap[i].closed}

\* Object i has been closed, a capture with stop_threads requested.
Released(i) ==
    /\ heap[i].closed
    /\ heap[i].kind = "Capture" => heap[i].stop_threads = Some(TRUE)

Idle == stdout = None /\ stderr = None /\ process = None

\* The call got as far as a Pipeline.run that did not raise.
Launched(call) == call.launches # <<>> /\ call.exc # Some("LaunchError")

\* The call printed a report from its START line to the blank line after END.
ReportComplete(call) ==
    /\ Len(call.console) >= 2
    /\ call.console[1] = "[] ** START **"
    /\ call.console[Len(call.console) - 1] = "[] ** E N D **"
    /\ call.console[Len(call.console)] = ""
    /\ call.pending = ""

ExplicitEncoding == "encoding" \in DOMAIN given

----------------------------------------------------------------------------
\* C1: at most one process handle of the CliCommand is un-closed in every
\* state; when run() constructs its Pipeline every earlier process handle has
\* been closed, and the new one is then the only live one.
C1_AtMostOneLiveProcess ==
    /\ Cardinality(LiveProcesses) <= 1
    /\ (last.op = "run" /\ last.pipeline # None) =>
          /\ last.live = {}
          /\ process # None
          /\ process[1] > last.nobjects
          /\ LiveProcesses = {process[1]}

\* Two successive run() calls: the second closed the first one's process.
C1_Witness ==
    /\ nruns = 2
    /\ last.op = "run"
    /\ last.exc = None
    /\ \E k \in 1..Len(last.closes) :
          /\ heap[last.closes[k]].kind = "Pipeline"
          /\ heap[last.closes[k]].closed
    /\ Cardinality(LiveProcesses) = 1

\* C2 as stated: the resolved stdout and stderr encodings are always equal.
C2_EncodingsNeverMixed == stdout_encoding = stderr_encoding

\* C2 as amended: the two resolved encodings are equal when an explicit
\* encoding is given, when a platform stream encoding is undefined, or when
\* the two platform stream encodings are equal; with no explicit encoding and
\* two different defined platform encodings each stream keeps its own.
C2_EncodingsSharedUnlessStreamsDiffer ==
    IF \/ ExplicitEncoding
       \/ sys_stdout_encoding = None
       \/ sys_stderr_encoding = None
       \/ sys_stdout_encoding = sys_stderr_encoding
      THEN stdout_encoding = stderr_encoding
      ELSE /\ stdout_encoding = sys_stdout_encoding[1]
           /\ stderr_encoding = sys_stderr_encoding[1]
           /\ stdout_encoding # stderr_encoding

\* An explicit encoding on a platform whose two streams differ.
C2_Witness ==
    /\ ExplicitEncoding
    /\ sys_stdout_encoding = Some("cp949")
    /\ sys_stderr_encoding = Some("ascii")
    /\ stdout_encoding = "utf-16"
    /\ stderr_encoding = "utf-16"

\* C3 as stated: a run() with silence false whose process was launched
\* without error prints the whole report and returns the process handle,
\* whatever capture and async are.
C3_ReportWheneverNotSilenced ==
    (last.op = "run" /\ silence = FALSE /\ Launched(last)) =>
        /\ last.exc = None
        /\ ReportComplete(last)
        /\ last.ret # None
        /\ last.ret = process

\* C4: an object the handle no longer refers to has been closed (a capture
\* with stop_threads requested), and once run() or terminate() has returned
\* every object that existed when the call began has been closed.
C4_EarlierObjectsClosed ==
    /\ \A i \in Objects \ Referenced : Released(i)
    /\ (last.op \in {"run", "terminate"} /\ last.exc = None) =>
          \A i \in 1..last.nobjects : Released(i)

\* A second run() with capture returned: the three objects of the first run
\* were closed by it.
C4_Witness ==
    /\ last.op = "run"
    /\ last.exc = None
    /\ last.nobjects = 3
    /\ last.closes = <<1, 2, 3>>
    /\ Len(heap) = 6
    /\ \A i \in 1..3 : Released(i)

\* C5: a terminate() on a handle whose process and captures are null raises
\* nothing, calls no close() and leaves the three references null and the
\* objects as they were; a terminate() that returns leaves the three
\* references null, so that the next terminate() is such a call.
C5_TerminateIdempotent ==
    [][ last'.op = "terminate" =>
          /\ Idle => /\ last'.exc = None
                     /\ last'.closes = <<>>
                     /\ Idle'
                     /\ heap' = heap
          /\ last'.exc = None => Idle' ]_vars

\* The second of two terminate() calls after a run().
C5_Witness ==
    /\ last.op = "terminate"
    /\ last.exc = None
    /\ last.closes = <<>>
    /\ Idle
    /\ nruns = 1
    /\ nfaults = 0
    /\ \E i \in Objects : heap[i].kind = "Pipeline" /\ heap[i].closed

\* C6: get_process() returns self.process: the object the most recent run()
\* returned when no terminate() came after it, null when run() was never
\* called or when a terminate() that returned was the last of the two; and
\* what run() returns is the Pipeline it constructed, which is self.process.
C6_GetProcess ==
    /\ last.op = "get_process" =>
          /\ last.ret = process
          /\ (lifecycle.op = "run" /\ lifecycle.exc = None) =>
                last.ret # None /\ last.ret = lifecycle.ret
          /\ lifecycle.op = "__init__" => last.ret = None
          /\ (lifecycle.op = "terminate" /\ lifecycle.exc = None) =>
                last.ret = None
    /\ (last.op = "run" /\ last.exc = None) =>
          /\ last.ret # None
          /\ last.ret = process
          /\ last.ret[1] > last.nobjects
          /\ heap[last.ret[1]].kind = "Pipeline"

\* get_process() after the second run() of a handle.
C6_Witness ==
    /\ last.op = "get_process"
    /\ lifecycle.op = "run"
    /\ lifecycle.exc = None
    /\ nruns = 2
    /\ last.ret # None
    /\ last.ret = lifecycle.ret

C8_TerminateFrame ==
    [][ last'.op = "terminate" => UNCHANGED config ]_vars

\* A terminate() that closed the two captures and the process of a run.
C8_Witness ==
    /\ last.op = "terminate"
    /\ last.exc = None
    /\ Len(last.closes) = 3
    /\ Idle
    /\ kwargs = Cwd

\* C9: with a non-empty param, on Windows the Pipeline is constructed with
\* source = cmd + " " + param + " & exit" and shell True, on any other
\* platform with source = cmd + " " + param and shell None; "foo" and "-l"
\* give "foo -l & exit" and "foo -l".
C9_PlatformCommand ==
    (last.op = "run" /\ last.pipeline # None /\ Truthy(last.param)) =>
        LET p == last.pipeline[1]
        IN  /\ platform_system = "Windows" =>
                  /\ p.source = cmd \o " " \o last.param[1] \o " & exit"
                  /\ p.shell = Some(TRUE)
            /\ platform_system # "Windows" =>
                  /\ p.source = cmd \o " " \o last.param[1]
                  /\ p.shell = None
            /\ (cmd = "foo" /\ last.param = Some("-l")) =>
                  p.source = IF platform_system = "Windows"
                               THEN "foo -l & exit" ELSE "foo -l"

\* "foo" run with "-l" on Windows.
C9_Witness ==
    /\ last.op = "run"
    /\ last.exc = None
    /\ platform_system = "Windows"
    /\ cmd = "foo"
    /\ last.param = Some("-l")
    /\ last.pipeline # None
    /\ last.pipeline[1].source = "foo -l & exit"
    /\ last.pipeline[1].shell = Some(TRUE)

\* C10 as stated: an explicit encoding E gives both encodings E; with none
\* and the platform stream encodings defined both equal one platform
\* encoding; with none and a platform stream encoding undefined both are
\* "utf-8".
C10_EncodingResolution ==
    /\ ExplicitEncoding =>
          stdout_encoding = given["encoding"] /\ stderr_encoding = given["encoding"]
    /\ (~ExplicitEncoding /\ sys_stdout_encoding # None
           /\ sys_stderr_encoding # None) =>
          \E e \in {sys_stdout_encoding[1], sys_stderr_encoding[1]} :
              stdout_encoding = e /\ stderr_encoding = e
    /\ (~ExplicitEncoding /\ (sys_stdout_encoding = None
                               \/ sys_stderr_encoding = None)) =>
          stdout_encoding = "utf-8" /\ stderr_encoding = "utf-8"

\* C10 as amended: with no explicit encoding and both platform stream
\* encodings defined, stdout_encoding is sys.stdout.encoding and
\* stderr_encoding is sys.stderr.encoding; the other two cases as stated.
C10_EncodingResolutionPerStream ==
    /\ ExplicitEncoding =>
          stdout_encoding = given["encoding"] /\ stderr_encoding = given["encoding"]
    /\ (~ExplicitEncoding /\ sys_stdout_encoding # None
           /\ sys_stderr_encoding # None) =>
          /\ stdout_encoding = sys_stdout_encoding[1]
          /\ stderr_encoding = sys_stderr_encoding[1]
    /\ (~ExplicitEncoding /\ (sys_stdout_encoding = None
                               \/ sys_stderr_encoding = None)) =>
          stdout_encoding = "utf-8" /\ stderr_encoding = "utf-8"

\* No explicit encoding and only one platform stream encoding defined.
C10_Witness ==
    /\ ~ExplicitEncoding
    /\ sys_stdout_encoding = Some("cp949")
    /\ sys_stderr_encoding = None
    /\ stdout_encoding = "utf-8"
    /\ stderr_encoding = "utf-8"

----------------------------------------------------------------------------
(* The report, stated from the text: piece j of a text lies between its     *)
(* (j-1)-th and its j-th newline.                                            *)

NewlinesOf(text) == {k \in 1..Len(text) : text[k] = "\n"}

NPieces(text) == Cardinality(NewlinesOf(text)) + 1

\* The position of the j-th newline; 0 before the first, Len + 1 after the last.
NewlineAt(text, j) ==
    IF j = 0 THEN 0
    ELSE IF j > Cardinality(NewlinesOf(text)) THEN Len(text) + 1
    ELSE CHOOSE k \in NewlinesOf(text) :
            Cardinality({m \in NewlinesOf(text) : m <= k}) = j

Piece(text, j) ==
    SubSeq(text, NewlineAt(text, j - 1) + 1, NewlineAt(text, j) - 1)

\* One label line and one continuation line for each further piece.
StreamBlock(label, text) ==
    [j \in 1..NPieces(text) |->
        IF j = 1 THEN label \o Str(Piece(text, 1))
        ELSE "[]           : " \o Str(Piece(text, j))]

ExpectedReport(source, code, out, err) ==
    <<"[] ** START **", "[] Command   : " \o source,
      "[] Exit Code : " \o FormatD(code)>>
    \o StreamBlock("[] STDOUT    : ", out)
    \o StreamBlock("[] STDERR    : ", err)
    \o <<"[] ** E N D **", "">>

\* C11: the report of a run() with silence false that returns is the START
\* line, the Command line with the full command line, the Exit Code line, the
\* STDOUT block, the STDERR block, the END line and a blank line; a block is
\* the label line with the first newline-separated piece of the text and one
\* continuation line for each further piece, in order: "a\nb\nc" gives a on
\* the label line, then b, then c, and the empty text a label line with an
\* empty value and no continuation line.
C11_ReportFormat ==
    (last.op = "run" /\ last.exc = None /\ silence = FALSE) =>
        /\ Len(last.texts) = 2
        /\ last.exitcode # None
        /\ last.pending = ""
        /\ last.console = ExpectedReport(last.pipeline[1].source,
                                         last.exitcode[1], last.texts[1],
                                         last.texts[2])
        /\ Len(last.console) = 5 + NPieces(last.texts[1]) + NPieces(last.texts[2])
        /\ last.exitcode = Some(0) => last.console[3] = "[] Exit Code : 0"
        /\ last.texts[1] = <<"a", "\n", "b", "\n", "c">> =>
              /\ last.console[4] = "[] STDOUT    : a"
              /\ last.console[5] = "[]           : b"
              /\ last.console[6] = "[]           : c"
              /\ last.console[7] = "[] STDERR    : " \o Str(Piece(last.texts[2], 1))
        /\ last.texts[1] = <<>> =>
              /\ last.console[4] = "[] STDOUT    : "
              /\ last.console[5] = "[] STDERR    : " \o Str(Piece(last.texts[2], 1))

\* A report of stdout text "a\nb\nc" and exit code 0.
C11_Witness ==
    /\ last.op = "run"
    /\ last.exc = None
    /\ silence = FALSE
    /\ last.exitcode = Some(0)
    /\ last.texts = << <<"a", "\n", "b", "\n", "c">>, <<"w", "\n">> >>
    /\ last.console = <<"[] ** START **", "[] Command   : foo -l",
                        "[] Exit Code : 0", "[] STDOUT    : a",
                        "[]           : b", "[]           : c",
                        "[] STDERR    : w", "[]           : ",
                        "[] ** E N D **", "">>

----------------------------------------------------------------------------
\* The handle holds a capture or a process.
Running == ~Idle

\* C12: the handle is Idle, with no object created, after construction; a
\* run() that returns leaves it Running with a process; a terminate() that
\* returns leaves it Idle; and no state is terminal: in every state, Idle or
\* Running, a terminate() in which no close() raises returns and gives Idle,
\* and a run() in which no collaborator raises gives Running with a fresh
\* process, which it returns when it returns.
C12_IdleRunning ==
    /\ last.op = "__init__" => Idle /\ heap = <<>>
    /\ (last.op = "run" /\ last.exc = None) => Running /\ process # None
    /\ (last.op = "terminate" /\ last.exc = None) => Idle
    /\ LET t == terminate(Self("terminate"), "none")
       IN  /\ t.call.exc = None
           /\ t.stdout = None /\ t.stderr = None /\ t.process = None
    /\ \A param \in ParamSet, async_ \in BOOLEAN :
          LET r == run(param, None, None, async_, "none", Some(0), <<>>,
                       <<"w", "\n">>)
          IN  /\ r.call.exc \notin {Some("CloseError"), Some("LaunchError")}
              /\ r.process = Some(Len(r.heap))
              /\ Len(r.heap) > Len(heap)
              /\ r.call.exc = None => r.call.ret = r.process

\* Idle, Running, Idle, Running: a run() after a terminate() after a run().
C12_Witness ==
    /\ last.op = "run"
    /\ last.exc = None
    /\ Running
    /\ nruns = 2
    /\ nfaults = 0
    /\ last.closes = <<>>
    /\ \E i \in 1..last.nobjects : heap[i].kind = "Pipeline" /\ heap[i].closed

\* The references of the handle that are set, in the order stdout, stderr,
\* process.
HeldInOrder ==
    (IF stdout # None THEN stdout ELSE <<>>)
    \o (IF stderr # None THEN stderr ELSE <<>>)
    \o (IF process # None THEN process ELSE <<>>)

IsPrefix(p, q) == Len(p) <= Len(q) /\ p = SubSeq(q, 1, Len(p))

\* C13: terminate() (also the one run() begins with) calls close() on the
\* stdout capture, then the stderr capture, then the process, each if set,
\* and stops at a close() that raises; captures are closed with stop_threads
\* requested; when the process is closed the captures the handle held have
\* been closed; terminate() nulls a reference exactly when its close()
\* returned.
C13_ReleaseOrder ==
    [][ last'.op \in {"terminate", "run"} =>
          /\ IsPrefix(last'.closes, HeldInOrder)
          /\ last'.exc # Some("CloseError") => last'.closes = HeldInOrder
          /\ \A k \in 1..Len(last'.closes) :
                /\ heap'[last'.closes[k]].ncloses = heap[last'.closes[k]].ncloses + 1
                /\ k < Len(last'.closes) => heap'[last'.closes[k]].closed
                /\ heap[last'.closes[k]].kind = "Capture" =>
                      heap'[last'.closes[k]].stop_threads = Some(TRUE)
          /\ (process # None /\ last'.closes # <<>>
                /\ last'.closes[Len(last'.closes)] = process[1]) =>
                /\ stdout # None => heap'[stdout[1]].closed
                /\ stderr # None => heap'[stderr[1]].closed
          /\ last'.op = "terminate" =>
                /\ stdout' = IF stdout # None /\ heap'[stdout[1]].closed
                               THEN None ELSE stdout
                /\ stderr' = IF stderr # None /\ heap'[stderr[1]].closed
                               THEN None ELSE stderr
                /\ process' = IF process # None /\ heap'[process[1]].closed
                                THEN None ELSE process ]_vars

\* A terminate() that released the two captures and then the process.
C13_Witness ==
    /\ last.op = "terminate"
    /\ last.exc = None
    /\ last.closes = <<1, 2, 3>>
    /\ heap[1].kind = "Capture" /\ heap[1].closed
    /\ heap[2].kind = "Capture" /\ heap[2].closed
    /\ heap[3].kind = "Pipeline" /\ heap[3].closed
    /\ Idle

----------------------------------------------------------------------------
\* C14: when the Pipeline constructor or Pipeline.run raises, run() raises
\* that failure, has called Pipeline.run at most once (with the input and
\* async flag it was given), has printed nothing and returns nothing; this
\* in every reachable state, and no run() calls Pipeline.run twice.
C14_LaunchFailurePropagates ==
    /\ last.op = "run" => Len(last.launches) <= 1
    /\ (last.op = "run" /\ last.exc = Some("LaunchError")) =>
          /\ last.ret = None
          /\ last.console = <<>>
          /\ last.pending = ""
    /\ \A fault \in {"ctor", "launch"}, input \in InputSet, async_ \in BOOLEAN :
          LET r == run(Some("-l"), None, input, async_, fault, Some(0), <<>>,
                       <<"w", "\n">>)
          IN  /\ r.call.exc = Some("LaunchError")
              /\ r.call.ret = None
              /\ r.call.console = <<>>
              /\ r.call.pending = ""
              /\ r.call.launches =
                    IF fault = "launch"
                      THEN <<[input |-> input, async_ |-> async_]>>
                      ELSE <<>>
              /\ Cardinality({i \in 1..Len(r.heap) :
                                 i > Len(heap) /\ r.heap[i].kind = "Pipeline"})
                    = IF fault = "launch" THEN 1 ELSE 0

\* A run() in which Pipeline.run raised.
C14_Witness ==
    /\ last.op = "run"
    /\ last.exc = Some("LaunchError")
    /\ Len(last.launches) = 1
    /\ last.pipeline # None
    /\ last.ret = None
    /\ silence = FALSE

\* C15: the command line before the platform suffix is the program path
\* alone when param is None or "", and path, one space, param otherwise.
C15_CommandJoin ==
    (last.op = "run" /\ last.pipeline # None) =>
        LET suffix == IF platform_system = "Windows" THEN " & exit" ELSE ""
            source == last.pipeline[1].source
        IN  /\ last.param \in {None, Some("")} => source = cmd \o suffix
            /\ last.param \notin {None, Some("")} =>
                  source = cmd \o " " \o last.param[1] \o suffix
            /\ (platform_system = "Linux" /\ cmd = "foo"
                   /\ last.param \in {None, Some("")}) => source = "foo"
            /\ (platform_system = "Linux" /\ cmd = "/usr/bin/ls"
                   /\ last.param = Some("-l")) => source = "/usr/bin/ls -l"

\* "foo" run with the empty string as param.
C15_Witness ==
    /\ last.op = "run"
    /\ last.exc = None
    /\ platform_system = "Linux"
    /\ cmd = "foo"
    /\ last.param = Some("")
    /\ last.pipeline # None
    /\ last.pipeline[1].source = "foo"

\* C16: in every state of the handle (each is the state some get_process()
\* leaves), two run() calls that differ in msg only do the same: the same
\* Pipeline arguments, the same Pipeline.run arguments, the same report, the
\* same result and the same fields and objects afterwards.
C16_MessageUnused ==
    last.op = "get_process" =>
        \A param \in ParamSet, input \in InputSet, async_ \in BOOLEAN,
           fault \in {"none", "launch"}, out \in TextSet :
            \A msg \in MsgSet :
                run(param, msg, input, async_, fault, Some(0), out,
                    <<"w", "\n">>)
                = run(param, None, input, async_, fault, Some(0), out,
                      <<"w", "\n">>)

\* A handle that prints reports, in a state where a run() with a message
\* prints one.
C16_Witness ==
    /\ last.op = "get_process"
    /\ silence = FALSE
    /\ Running
    /\ LET r == run(Some("-l"), Some("listing"), Some("y"), FALSE, "none",
                    Some(0), <<>>, <<"w", "\n">>)
       IN  r.call.exc = None /\ ReportComplete(r.call)

----------------------------------------------------------------------------
\* C17: when the most recent run() failed at launch, the next terminate() or
\* run() in which no close() raises calls close() once on every object the
\* handle still refers to and leaves each closed; that terminate() ends Idle,
\* and that run(), when it returns normally, ends Running with a process it
\* has just created and returns it.
C17_ReusableAfterFailedLaunch ==
    [][(/\ lifecycle.op = "run"
        /\ lifecycle.exc = Some("LaunchError")
        /\ last'.op \in {"run", "terminate"}
        /\ last'.exc # Some("CloseError")) =>
           /\ \A i \in Referenced :
                 /\ heap'[i].closed
                 /\ heap'[i].ncloses = heap[i].ncloses + 1
                 /\ Cardinality({k \in 1..Len(last'.closes) :
                                    last'.closes[k] = i}) = 1
           /\ last'.op = "terminate" => Idle'
           /\ (last'.op = "run" /\ last'.exc = None) =>
                 /\ process' # None
                 /\ process'[1] > Len(heap)
                 /\ heap'[process'[1]].kind = "Pipeline"
                 /\ ~heap'[process'[1]].closed
                 /\ last'.ret = process'
                 /\ capture =>
                       /\ stdout' # None /\ stdout'[1] > Len(heap)
                       /\ stderr' # None /\ stderr'[1] > Len(heap)
                       /\ ~heap'[stdout'[1]].closed
                       /\ ~heap'[stderr'[1]].closed
                 /\ LiveProcesses' = {process'[1]}]_vars

\* A run() that returned normally right after a run() in which Pipeline.run
\* raised with both captures allocated: the three objects of the failed run
\* are closed, the three of this run are held.
C17_Witness ==
    /\ last.op = "run"
    /\ last.exc = None
    /\ nruns = 2
    /\ nfaults = 1
    /\ last.closes = <<1, 2, 3>>
    /\ Len(heap) = 6
    /\ \A i \in 1..3 : heap[i].closed /\ heap[i].ncloses = 1
    /\ heap[3].kind = "Pipeline"
    /\ process = Some(6)
    /\ stdout = Some(4)
    /\ stderr = Some(5)

\* C18: after a construction, run() or terminate() that returned normally
\* (and any get_process()/get_output() after it) the two capture references
\* are both None or both set; after such a run() with capture enabled the
\* three references are set and the two captures are the ones the Pipeline
\* of that run was given.
C18_CapturesPaired ==
    lifecycle.exc = None =>
        /\ stdout = None <=> stderr = None
        /\ (lifecycle.op = "run" /\ capture) =>
              /\ process # None
              /\ stdout # None
              /\ stderr # None
              /\ stdout # stderr
              /\ lifecycle.stdout = stdout
              /\ lifecycle.stderr = stderr
              /\ heap[stdout[1]].kind = "Capture"
              /\ heap[stderr[1]].kind = "Capture"
        /\ (lifecycle.op = "run" /\ ~capture) =>
              process # None /\ stdout = None /\ stderr = None

\* A second run() with capture enabled that returned normally.
C18_Witness ==
    /\ last.op = "run"
    /\ last.exc = None
    /\ capture
    /\ nruns = 2
    /\ last.pipeline # None
    /\ last.pipeline[1].stdout = stdout
    /\ last.pipeline[1].stderr = stderr
    /\ stdout = Some(4)
    /\ stderr = Some(5)
    /\ process = Some(6)

\* C19: close() is called on an object at most once more than it raised on
\* that object, so at most once on every object while no close() has raised;
\* and the handle refers to no object whose close() has returned.
C19_CloseAtMostOnce ==
    /\ \A i \in Objects : heap[i].ncloses <= heap[i].nraised + 1
    /\ (\A i \in Objects : heap[i].nraised = 0) =>
          \A i \in Objects : heap[i].ncloses <= 1
    /\ \A i \in Referenced : ~heap[i].closed

\* Two runs and a terminate() with no close() raising: six objects, each
\* closed once.
C19_Witness ==
    /\ last.op = "terminate"
    /\ nruns = 2
    /\ nfaults = 0
    /\ Len(heap) = 6
    /\ \A i \in Objects :
          heap[i].closed /\ heap[i].ncloses = 1 /\ heap[i].nraised = 0

\* C20: self.kwargs is, in every state, the constructor's keyword options
\* without "encoding", and every Pipeline is constructed with exactly these.
C20_EncodingNotForwarded ==
    LET forwarded == [k \in DOMAIN given \ {"encoding"} |-> given[k]]
    IN  /\ kwargs = forwarded
        /\ "encoding" \notin DOMAIN kwargs
        /\ last.pipeline # None =>
              /\ last.pipeline[1].kwargs = forwarded
              /\ "encoding" \notin DOMAIN last.pipeline[1].kwargs

\* The second run() of a handle constructed with encoding and cwd.
C20_Witness ==
    /\ "encoding" \in DOMAIN given
    /\ "cwd" \in DOMAIN given
    /\ last.op = "run"
    /\ nruns = 2
    /\ last.pipeline # None
    /\ DOMAIN last.pipeline[1].kwargs = {"cwd"}
    /\ last.pipeline[1].kwargs.cwd = given.cwd

====
